---- MODULE Spec2Model ----
(***************************************************************************)
(* State-machine model of plugins/connection/libssh.py: the process-wide   *)
(* session and SFTP caches, the connection objects that use them           *)
(* (_connect, close, reset, put_file, fetch_file), the host-key policy     *)
(* MyAddPolicy.missing_host_key and exec_command.                          *)
(*                                                                         *)
(* Python objects are modelled by their identity: a Session, an SFTP       *)
(* handle and a channel are the index of their record in `sessions`,       *)
(* `sftps` and `channels`; a new object is a new index.  A dict and the    *)
(* per-object attributes that may not exist (self.ssh, self.sftp,          *)
(* self.chan) are functions whose DOMAIN is the set of keys present.       *)
(***************************************************************************)
EXTENDS Integers, Sequences, FiniteSets, TLC

\* ------------------------------------------------------------------ bounds
MaxSessions == 2    \* Session() objects created in one run
MaxSftp == 2        \* SFTP handles created in one run

\* The connection objects of one process, and the users their play contexts
\* can name; every object targets the same host.
Conns == {"c1", "c2"}
Users == {"u1", "u2"}
remote_addr(c) == "h1"

VARIABLES
    remote_user,            \* _play_context.remote_user of each connection object
    HAS_PYLIBSSH,           \* module global: the pylibsshext import succeeded
    SSH_CONNECTION_CACHE,   \* dict: cache key -> session
    SFTP_CONNECTION_CACHE,  \* dict: cache key -> SFTP handle
    ssh,                    \* self.ssh   of each connection object, if set
    sftp,                   \* self.sftp  of each connection object, if set
    chan,                   \* self.chan  of each connection object, if set
    sessions,               \* Session objects: [state: "new"|"open"|"closed", user]
    sftps,                  \* SFTP handles: [session, open]
    channels,               \* channels: [session, open]
    last,                   \* the last call: operation, object, outcome
    yielded,                \* history: key -> session the last connect gave
    closedBy,               \* history: key -> session the last close closed
    pc,                     \* where each task is inside a _connect call
    ret,                    \* the value _connect_uncached returned to a task
    policy,                 \* one missing_host_key call: inputs and outcome
    xc,                     \* the exec_command call of c1: position and locals
    px                      \* one _get_proxy_command call: inputs and outcome

cacheVars == <<remote_user, HAS_PYLIBSSH, SSH_CONNECTION_CACHE, SFTP_CONNECTION_CACHE, ssh,
               sftp, chan, sessions, sftps, channels, last, yielded, closedBy>>

threadVars == <<pc, ret>>
vars == <<cacheVars, threadVars, policy, xc, px>>

\* ------------------------------------------------------------ dict helpers
DictSet(d, k, v) == [x \in DOMAIN d \cup {k} |-> IF x = k THEN v ELSE d[x]]
Empty == [x \in {} |-> x]

\* A pop that removes nothing (faulty variant).
DictPopKeep(d, k) == d

\* dict.pop(key, None): remove the key if present
DictPop(d, k) == [x \in DOMAIN d \ {k} |-> d[x]]

\* Two objects have the same ConnectionIdentity (remote_addr, remote_user).
SameIdentity(c, d) ==
    remote_addr(c) = remote_addr(d) /\ remote_user[c] = remote_user[d]

\* Connection._cache_key: "%s__%s__" % (remote_addr, remote_user)
cache_key(c) == remote_addr(c) \o "__" \o remote_user[c] \o "__"

\* The program state as one record, so that a method calling another one
\* (reset, _connect_sftp) composes their effects.
St == [cache |-> SSH_CONNECTION_CACHE, scache |-> SFTP_CONNECTION_CACHE,
       ssh |-> ssh, sftp |-> sftp, chan |-> chan,
       sessions |-> sessions, sftps |-> sftps, channels |-> channels]

SetSt(st) ==
    /\ SSH_CONNECTION_CACHE' = st.cache
    /\ SFTP_CONNECTION_CACHE' = st.scache
    /\ ssh' = st.ssh
    /\ sftp' = st.sftp
    /\ chan' = st.chan
    /\ sessions' = st.sessions
    /\ sftps' = st.sftps
    /\ channels' = st.channels

\* ---------------------------------------------------------- host-key policy
\* The options MyAddPolicy reads and the answers display.prompt_until can give.
Options == [host_key_checking : BOOLEAN, host_key_auto_add : BOOLEAN,
            use_persistent_connections : BOOLEAN, force_persistence : BOOLEAN]
Answers == {"yes", "y", "", "no", "n", "YES"}

\* The outcome of a missing_host_key call:
\*   raised            the AnsibleError raised, or "none"
\*   prompted          display.prompt_until was called
\*   unlocked          connection.connection_unlock was called
\*   hostkey_auto_add  session.hostkey_auto_add(username) was called

\* Faulty variant: the persistence test of lines 272-280 is missing.
missing_host_key_noPersistCheck(o, inp) ==
    IF o.host_key_checking /\ ~o.host_key_auto_add
    THEN IF inp \notin {"yes", "y", ""}
         THEN [raised |-> "AnsibleError: host connection rejected by user",
               prompted |-> TRUE, unlocked |-> TRUE, hostkey_auto_add |-> FALSE]
         ELSE [raised |-> "none", prompted |-> TRUE, unlocked |-> TRUE,
               hostkey_auto_add |-> TRUE]
    ELSE [raised |-> "none", prompted |-> FALSE, unlocked |-> FALSE,
          hostkey_auto_add |-> TRUE]

\* Faulty variant: the test of lines 266-271 is missing.
missing_host_key_alwaysAsk(o, inp) ==
    IF o.use_persistent_connections \/ o.force_persistence
    THEN [raised |-> "AnsibleError: The authenticity of host can't be established",
          prompted |-> FALSE, unlocked |-> FALSE, hostkey_auto_add |-> FALSE]
    ELSE IF inp \notin {"yes", "y", ""}
    THEN [raised |-> "AnsibleError: host connection rejected by user",
          prompted |-> TRUE, unlocked |-> TRUE, hostkey_auto_add |-> FALSE]
    ELSE [raised |-> "none", prompted |-> TRUE, unlocked |-> TRUE,
          hostkey_auto_add |-> TRUE]

\* Faulty variant: the answer is compared without regard to case.
missing_host_key_caseBlind(o, inp) ==
    IF o.host_key_checking /\ ~o.host_key_auto_add
    THEN IF o.use_persistent_connections \/ o.force_persistence
         THEN [raised |-> "AnsibleError: The authenticity of host can't be established",
               prompted |-> FALSE, unlocked |-> FALSE, hostkey_auto_add |-> FALSE]
         ELSE IF inp \notin {"yes", "y", "", "YES"}
         THEN [raised |-> "AnsibleError: host connection rejected by user",
               prompted |-> TRUE, unlocked |-> TRUE, hostkey_auto_add |-> FALSE]
         ELSE [raised |-> "none", prompted |-> TRUE, unlocked |-> TRUE,
               hostkey_auto_add |-> TRUE]
    ELSE [raised |-> "none", prompted |-> FALSE, unlocked |-> FALSE,
          hostkey_auto_add |-> TRUE]

\* MyAddPolicy.missing_host_key(session, ...): what the call does, given the
\* options and the answer typed at the prompt (read only if the prompt is shown).
missing_host_key(o, inp) ==
    IF o.host_key_checking /\ ~o.host_key_auto_add
    THEN IF o.use_persistent_connections \/ o.force_persistence
         THEN [raised |-> "AnsibleError: The authenticity of host can't be established",
               prompted |-> FALSE, unlocked |-> FALSE, hostkey_auto_add |-> FALSE]
         ELSE IF inp \notin {"yes", "y", ""}
         THEN [raised |-> "AnsibleError: host connection rejected by user",
               prompted |-> TRUE, unlocked |-> TRUE, hostkey_auto_add |-> FALSE]
         ELSE [raised |-> "none", prompted |-> TRUE, unlocked |-> TRUE,
               hostkey_auto_add |-> TRUE]
    ELSE [raised |-> "none", prompted |-> FALSE, unlocked |-> FALSE,
          hostkey_auto_add |-> TRUE]

\* What host-key verification can come to inside Session.connect: the key is
\* already known, or the policy is called and accepts or raises.
HostKeyVerdicts ==
    {"known"} \cup {IF missing_host_key(o, a).raised = "none" THEN "accept" ELSE "reject" :
                       o \in Options, a \in Answers}

\* -------------------------------------------------------------- _connect
\* What the environment does to one _connect_uncached call: every step passes
\* ("ok"), or the named step is the first to raise.
ConnectEnvs ==
    {"ok",
     "keyfile",     \* open(private_key_file) raises
     "version",     \* password_prompt set and PYLIBSSH_VERSION < 1.0.0
     "connect"}     \* Session.connect raises LibsshSessionException
    \cup (IF "reject" \in HostKeyVerdicts THEN {"hostkey"} ELSE {})

\* Connection._connect_uncached.  Returns the state, the outcome and, when the
\* outcome is "ok", the session returned.
connect_uncached(st, c, env) ==
    IF ~HAS_PYLIBSSH
    THEN [st |-> st, res |-> "AnsibleError: missing required lib", ret |-> {}]
    ELSE LET s == Len(st.sessions) + 1
             \* self.ssh = Session()
             st1 == [st EXCEPT !.sessions = Append(@, [state |-> "new",
                                                        user |-> remote_user[c]]),
                               !.ssh = DictSet(@, c, s)]
         IN  IF env \in {"keyfile", "version"}
             THEN [st |-> st1, res |-> "AnsibleConnectionFailure", ret |-> {}]
             ELSE IF env \in {"hostkey", "connect"}
             THEN [st |-> st1, res |-> "AnsibleConnectionFailure", ret |-> {}]
             ELSE [st |-> [st1 EXCEPT !.sessions[s].state = "open"], res |-> "ok",
                   ret |-> {s}]

\* Faulty variant: _connect without the lookup of lines 318-319.
connect_ignoreCache(st, c, env) ==
    LET key == cache_key(c)
        r == connect_uncached(st, c, env)
    IN  IF r.res = "ok"
        THEN LET s == CHOOSE x \in r.ret : TRUE
             IN  [st |-> [r.st EXCEPT !.ssh = DictSet(@, c, s),
                                      !.cache = DictSet(@, key, s)],
                  res |-> "ok", created |-> TRUE]
        ELSE [st |-> r.st, res |-> r.res, created |-> TRUE]

\* Faulty variant: the session is stored in the cache as soon as it is built,
\* whether or not connecting it succeeded.
connect_storeFirst(st, c, env) ==
    LET key == cache_key(c)
    IN  IF key \in DOMAIN st.cache
        THEN [st |-> [st EXCEPT !.ssh = DictSet(@, c, st.cache[key])],
              res |-> "ok", created |-> FALSE]
        ELSE LET r == connect_uncached(st, c, env)
             IN  IF c \in DOMAIN r.st.ssh
                 THEN [st |-> [r.st EXCEPT !.cache = DictSet(@, key, r.st.ssh[c])],
                       res |-> r.res, created |-> TRUE]
                 ELSE [st |-> r.st, res |-> r.res, created |-> TRUE]

\* Connection._connect.  `created` tells whether _connect_uncached ran.
connect(st, c, env) ==
    LET key == cache_key(c)
    IN  IF key \in DOMAIN st.cache
        THEN [st |-> [st EXCEPT !.ssh = DictSet(@, c, st.cache[key])],
              res |-> "ok", created |-> FALSE]
        ELSE LET r == connect_uncached(st, c, env)
             IN  IF r.res = "ok"
                 THEN LET s == CHOOSE x \in r.ret : TRUE
                      IN  [st |-> [r.st EXCEPT !.ssh = DictSet(@, c, s),
                                               !.cache = DictSet(@, key, s)],
                           res |-> "ok", created |-> TRUE]
                 ELSE [st |-> r.st, res |-> r.res, created |-> TRUE]

\* ------------------------------------------------------------ close, reset
\* The close calls close() makes when none raises, in order.
CloseCalls(st, c) ==
    (IF c \in DOMAIN st.sftp THEN <<"sftp.close">> ELSE <<>>)
    \o (IF c \in DOMAIN st.chan THEN <<"chan.close">> ELSE <<>>)
    \o (IF c \in DOMAIN st.ssh THEN <<"ssh.close">> ELSE <<>>)

\* Faulty variant: close without the pop of line 636.
close_keepSftpCache(st, c, cf) ==
    LET key == cache_key(c)
        st1 == [st EXCEPT !.cache = DictPop(@, key)]
        hasSftp == c \in DOMAIN st.sftp
        hasChan == c \in DOMAIN st.chan
        st2 == IF hasSftp THEN [st1 EXCEPT !.sftps[st.sftp[c]].open = FALSE] ELSE st1
        st3 == IF hasChan THEN [st2 EXCEPT !.channels[st.chan[c]].open = FALSE] ELSE st2
    IN  IF hasSftp /\ cf = "sftp"
        THEN [st |-> st1, res |-> "error: sftp.close", closed |-> {},
              calls |-> <<"sftp.close">>, marked |-> FALSE]
        ELSE IF hasChan /\ cf = "chan"
        THEN [st |-> st2, res |-> "error: chan.close", closed |-> {},
              calls |-> SubSeq(CloseCalls(st, c), 1, IF hasSftp THEN 2 ELSE 1),
              marked |-> FALSE]
        ELSE IF c \notin DOMAIN st.ssh
        THEN [st |-> st3, res |-> "AttributeError: ssh", closed |-> {},
              calls |-> CloseCalls(st, c), marked |-> FALSE]
        ELSE [st |-> [st3 EXCEPT !.sessions[st.ssh[c]].state = "closed"], res |-> "ok",
              closed |-> {st.ssh[c]}, calls |-> CloseCalls(st, c), marked |-> TRUE]

\* Faulty variant: an error of sftp.close() or chan.close() is swallowed and
\* the teardown goes on.
close_swallowErrors(st, c, cf) ==
    LET key == cache_key(c)
        st1 == [st EXCEPT !.cache = DictPop(@, key), !.scache = DictPop(@, key)]
        hasSftp == c \in DOMAIN st.sftp
        hasChan == c \in DOMAIN st.chan
        st2 == IF hasSftp /\ cf # "sftp"
               THEN [st1 EXCEPT !.sftps[st.sftp[c]].open = FALSE] ELSE st1
        st3 == IF hasChan /\ cf # "chan"
               THEN [st2 EXCEPT !.channels[st.chan[c]].open = FALSE] ELSE st2
    IN  IF c \notin DOMAIN st.ssh
        THEN [st |-> st3, res |-> "AttributeError: ssh", closed |-> {},
              calls |-> CloseCalls(st, c), marked |-> FALSE]
        ELSE [st |-> [st3 EXCEPT !.sessions[st.ssh[c]].state = "closed"], res |-> "ok",
              closed |-> {st.ssh[c]}, calls |-> CloseCalls(st, c), marked |-> TRUE]

\* Connection.close.  cf names the library close call that raises ("sftp",
\* "chan"), if any; `closed` is the session self.ssh.close() closed, `calls`
\* the close calls made, the raising one included, and `marked` tells whether
\* line 647 (self._connected = False) ran.
close(st, c, cf) ==
    LET key == cache_key(c)
        st1 == [st EXCEPT !.cache = DictPop(@, key), !.scache = DictPop(@, key)]
        hasSftp == c \in DOMAIN st.sftp
        hasChan == c \in DOMAIN st.chan
        st2 == IF hasSftp THEN [st1 EXCEPT !.sftps[st.sftp[c]].open = FALSE] ELSE st1
        st3 == IF hasChan THEN [st2 EXCEPT !.channels[st.chan[c]].open = FALSE] ELSE st2
    IN  IF hasSftp /\ cf = "sftp"
        THEN [st |-> st1, res |-> "error: sftp.close", closed |-> {},
              calls |-> <<"sftp.close">>, marked |-> FALSE]
        ELSE IF hasChan /\ cf = "chan"
        THEN [st |-> st2, res |-> "error: chan.close", closed |-> {},
              calls |-> SubSeq(CloseCalls(st, c), 1, IF hasSftp THEN 2 ELSE 1),
              marked |-> FALSE]
        ELSE IF c \notin DOMAIN st.ssh
        THEN [st |-> st3, res |-> "AttributeError: ssh", closed |-> {},
              calls |-> CloseCalls(st, c), marked |-> FALSE]
        ELSE [st |-> [st3 EXCEPT !.sessions[st.ssh[c]].state = "closed"], res |-> "ok",
              closed |-> {st.ssh[c]}, calls |-> CloseCalls(st, c), marked |-> TRUE]

\* Connection.reset: close(), then _connect() unless close() raised.
reset(st, c, cf, env) ==
    LET r == close(st, c, cf)
    IN  IF r.res # "ok"
        THEN [st |-> r.st, res |-> r.res, created |-> FALSE, connected |-> FALSE]
        ELSE LET q == connect(r.st, c, env)
             IN  [st |-> q.st, res |-> q.res, created |-> q.created,
                  connected |-> TRUE]

\* ------------------------------------------------------ put_file, fetch_file
\* exec_command, put_file and fetch_file each begin by calling the method of
\* the same name of ConnectionBase (lines 451, 549, 595).  That method is the
\* framework's, not this file's; the operators below model what follows it.
Protos == {"sftp", "scp", "ftp"}

\* What the library does in one transfer call.
TransferEnvs == [sftp_ok : BOOLEAN,   \* Session.sftp() raises nothing
                 xfer_ok : BOOLEAN]   \* put/get raises nothing

IsOpen(st, c) == c \in DOMAIN st.ssh /\ st.sessions[st.ssh[c]].state = "open"

\* Faulty variant: on a miss the handle is opened on self.ssh as it stands,
\* without a call of _connect().
connect_sftp_ownSession(st, c, env, io) ==
    LET key == cache_key(c)
        h == Len(st.sftps) + 1
    IN  IF key \in DOMAIN st.scache
        THEN [st |-> st, res |-> "ok", ret |-> {st.scache[key]},
              connected |-> FALSE, created |-> FALSE, calls |-> {}]
        ELSE IF c \notin DOMAIN st.ssh
        THEN [st |-> st, res |-> "AttributeError: ssh", ret |-> {},
              connected |-> FALSE, created |-> FALSE, calls |-> {}]
        ELSE IF ~(io.sftp_ok /\ IsOpen(st, c))
        THEN [st |-> st, res |-> "error: ssh.sftp", ret |-> {},
              connected |-> FALSE, created |-> FALSE, calls |-> {"ssh.sftp"}]
        ELSE [st |-> [st EXCEPT
                        !.sftps = Append(@, [session |-> st.ssh[c], open |-> TRUE]),
                        !.scache = DictSet(@, key, h)],
              res |-> "ok", ret |-> {h},
              connected |-> FALSE, created |-> FALSE, calls |-> {"ssh.sftp"}]

\* Connection._connect_sftp.  `ret` is the handle returned when res = "ok";
\* `connected` tells whether _connect was called, `calls` is the set of
\* library calls made on the session and on its handles.
connect_sftp(st, c, env, io) ==
    LET key == cache_key(c)
    IN  IF key \in DOMAIN st.scache
        THEN [st |-> st, res |-> "ok", ret |-> {st.scache[key]},
              connected |-> FALSE, created |-> FALSE, calls |-> {}]
        ELSE LET q == connect(st, c, env)
                 h == Len(st.sftps) + 1
             IN  IF q.res # "ok"
                 THEN [st |-> q.st, res |-> q.res, ret |-> {},
                       connected |-> TRUE, created |-> q.created, calls |-> {}]
                 ELSE IF ~(io.sftp_ok /\ IsOpen(q.st, c))
                 THEN [st |-> q.st, res |-> "error: ssh.sftp", ret |-> {},
                       connected |-> TRUE, created |-> q.created,
                       calls |-> {"ssh.sftp"}]
                 ELSE [st |-> [q.st EXCEPT
                                 !.sftps = Append(@, [session |-> q.st.ssh[c],
                                                      open |-> TRUE]),
                                 !.scache = DictSet(@, key, h)],
                       res |-> "ok", ret |-> {h},
                       connected |-> TRUE, created |-> q.created,
                       calls |-> {"ssh.sftp"}]

UnknownProtocol == "AnsibleError: Don't know how to transfer file over protocol"

\* The rest of the sftp branch of fetch_file (lines 603-614), r being the
\* outcome of _connect_sftp().
sftp_get(r, c, io) ==
    IF r.res # "ok"
    THEN [st |-> r.st, res |-> "AnsibleError: failed to open a SFTP connection",
          connected |-> r.connected, created |-> r.created, calls |-> r.calls]
    ELSE LET h == CHOOSE x \in r.ret : TRUE
             st1 == [r.st EXCEPT !.sftp = DictSet(@, c, h)]
         IN  [st |-> st1,
              res |-> IF io.xfer_ok /\ st1.sftps[h].open
                      THEN "ok"
                      ELSE "AnsibleError: failed to transfer file",
              connected |-> r.connected, created |-> r.created,
              calls |-> r.calls \cup {"sftp.get"}]

\* Faulty variant: a protocol that is not "sftp" is taken to be "scp".
fetch_file_elseScp(st, c, proto, env, io) ==
    IF proto = "sftp"
    THEN sftp_get(connect_sftp(st, c, env, io), c, io)
    ELSE [st |-> st,
          res |-> IF c \notin DOMAIN st.ssh THEN "AttributeError: ssh"
                  ELSE IF io.xfer_ok /\ IsOpen(st, c) THEN "ok"
                  ELSE "AnsibleError: Error transferring file",
          connected |-> FALSE, created |-> FALSE,
          calls |-> IF c \in DOMAIN st.ssh THEN {"ssh.scp", "scp.get"} ELSE {}]

\* Connection.fetch_file
fetch_file(st, c, proto, env, io) ==
    IF proto = "sftp"
    THEN sftp_get(connect_sftp(st, c, env, io), c, io)
    ELSE IF proto = "scp"
    THEN [st |-> st,
          res |-> IF c \notin DOMAIN st.ssh THEN "AttributeError: ssh"
                  ELSE IF io.xfer_ok /\ IsOpen(st, c) THEN "ok"
                  ELSE "AnsibleError: Error transferring file",
          connected |-> FALSE, created |-> FALSE,
          calls |-> IF c \in DOMAIN st.ssh THEN {"ssh.scp", "scp.get"} ELSE {}]
    ELSE [st |-> st, res |-> UnknownProtocol,
          connected |-> FALSE, created |-> FALSE, calls |-> {}]

\* The part of put_file that follows the test of the local path (lines 559-579).
put_dispatch(st, c, proto, io) ==
    IF proto = "sftp"
    THEN IF c \notin DOMAIN st.ssh
         THEN [st |-> st, res |-> "AnsibleError: failed to open a SFTP connection",
               calls |-> {}]
         ELSE IF ~(io.sftp_ok /\ IsOpen(st, c))
         THEN [st |-> st, res |-> "AnsibleError: failed to open a SFTP connection",
               calls |-> {"ssh.sftp"}]
         ELSE LET h == Len(st.sftps) + 1
              IN  [st |-> [st EXCEPT
                             !.sftps = Append(@, [session |-> st.ssh[c],
                                                  open |-> TRUE]),
                             !.sftp = DictSet(@, c, h)],
                   res |-> IF io.xfer_ok THEN "ok"
                           ELSE "AnsibleError: failed to transfer file",
                   calls |-> {"ssh.sftp", "sftp.put"}]
    ELSE IF proto = "scp"
    THEN [st |-> st,
          res |-> IF c \notin DOMAIN st.ssh THEN "AttributeError: ssh"
                  ELSE IF io.xfer_ok /\ IsOpen(st, c) THEN "ok"
                  ELSE "AnsibleError: Error transferring file",
          calls |-> IF c \in DOMAIN st.ssh THEN {"ssh.scp", "scp.put"} ELSE {}]
    ELSE [st |-> st, res |-> UnknownProtocol, calls |-> {}]

\* Faulty variant: the local path is tested after the transfer was tried.
put_file_lateExists(st, c, exists, proto, io) ==
    LET r == put_dispatch(st, c, proto, io)
    IN  IF ~exists THEN [r EXCEPT !.res = "AnsibleFileNotFound"] ELSE r

\* Connection.put_file.  `exists` is os.path.exists(in_path).
put_file(st, c, exists, proto, io) ==
    IF ~exists
    THEN [st |-> st, res |-> "AnsibleFileNotFound", calls |-> {}]
    ELSE put_dispatch(st, c, proto, io)

\* ------------------------------------------------------------------ history
Forget(d, k) == [x \in DOMAIN d \ {k} |-> d[x]]

Record(op, c, res, created) ==
    last' = [op |-> op, conn |-> c, res |-> res, created |-> created]

\* A _connect call for c ended with `res`, leaving state st.
AfterConnect(st, c, res) ==
    /\ yielded' = IF res = "ok" THEN DictSet(yielded, cache_key(c), st.ssh[c])
                  ELSE yielded
    /\ closedBy' = Forget(closedBy, cache_key(c))

WithinBounds(st) == Len(st.sessions) <= MaxSessions /\ Len(st.sftps) <= MaxSftp

\* ------------------------------------------------------------------ actions
InitCache ==
    /\ remote_user \in [Conns -> Users]
    /\ remote_user["c1"] = "u1"
    /\ HAS_PYLIBSSH \in BOOLEAN
    /\ SSH_CONNECTION_CACHE = Empty
    /\ SFTP_CONNECTION_CACHE = Empty
    /\ ssh = Empty
    /\ sftp = Empty
    /\ chan = Empty
    /\ sessions = <<>>
    /\ sftps = <<>>
    /\ channels = <<>>
    /\ last = [op |-> "init", conn |-> "none", res |-> "ok", created |-> FALSE]
    /\ yielded = Empty
    /\ closedBy = Empty

\* No task is inside _connect, no missing_host_key call is under way.
InitThreads == pc = [c \in Conns |-> "idle"] /\ ret = Empty
NoPolicyCall == [phase |-> "idle"]

\* The inputs a call can depend on: only a step that runs can fail.  For
\* close: the library close call that raises, if any.
ConnectEnvsFor(st, c) ==
    IF cache_key(c) \in DOMAIN st.cache \/ ~HAS_PYLIBSSH THEN {"ok"} ELSE ConnectEnvs

CloseEnvsFor(st, c) ==
    {"none"} \cup (IF c \in DOMAIN st.sftp THEN {"sftp"} ELSE {})
             \cup (IF c \in DOMAIN st.chan THEN {"chan"} ELSE {})

AllOk == [sftp_ok |-> TRUE, xfer_ok |-> TRUE]

Connect(c) ==
    \E env \in ConnectEnvsFor(St, c) :
        LET r == connect(St, c, env)
        IN  /\ WithinBounds(r.st)
            /\ SetSt(r.st)
            /\ Record("connect", c, r.res, r.created)
            /\ AfterConnect(r.st, c, r.res)
            /\ UNCHANGED <<remote_user, HAS_PYLIBSSH, threadVars, policy, xc, px>>

Close(c) ==
    \E cf \in CloseEnvsFor(St, c) :
        LET r == close(St, c, cf)
        IN  /\ SetSt(r.st)
            /\ last' = [op |-> "close", conn |-> c, res |-> r.res, created |-> FALSE,
                         fails |-> cf, calls |-> r.calls, marked |-> r.marked]
            /\ yielded' = Forget(yielded, cache_key(c))
            /\ closedBy' = IF r.res = "ok"
                           THEN DictSet(closedBy, cache_key(c),
                                        CHOOSE s \in r.closed : TRUE)
                           ELSE closedBy
            /\ UNCHANGED <<remote_user, HAS_PYLIBSSH, threadVars, policy, xc, px>>

Reset(c) ==
    \E cf \in CloseEnvsFor(St, c) :
        \E env \in (IF cf = "none" /\ c \in DOMAIN ssh /\ HAS_PYLIBSSH
                     THEN ConnectEnvs ELSE {"ok"}) :
            LET r == reset(St, c, cf, env)
            IN  /\ WithinBounds(r.st)
                /\ SetSt(r.st)
                /\ Record("reset", c, r.res, r.created)
                /\ yielded' = IF r.connected /\ r.res = "ok"
                              THEN DictSet(yielded, cache_key(c), r.st.ssh[c])
                              ELSE Forget(yielded, cache_key(c))
                /\ closedBy' = IF r.connected THEN Forget(closedBy, cache_key(c))
                               ELSE closedBy
                /\ UNCHANGED <<remote_user, HAS_PYLIBSSH, threadVars, policy, xc, px>>

Fetch(c) ==
    \E proto \in Protos :
        \E env \in (IF proto = "sftp" /\ cache_key(c) \notin DOMAIN SFTP_CONNECTION_CACHE
                     THEN ConnectEnvsFor(St, c) ELSE {"ok"}),
           io \in (IF proto = "ftp" THEN {AllOk} ELSE TransferEnvs) :
            LET r == fetch_file(St, c, proto, env, io)
            IN  /\ WithinBounds(r.st)
                /\ SetSt(r.st)
                /\ last' = [op |-> "fetch", conn |-> c, res |-> r.res,
                             created |-> r.created, proto |-> proto,
                             calls |-> r.calls]
                /\ IF r.connected
                   THEN AfterConnect(r.st, c,
                                     IF cache_key(c) \in DOMAIN r.st.cache
                                     THEN "ok" ELSE "failed")
                   ELSE UNCHANGED <<yielded, closedBy>>
                /\ UNCHANGED <<remote_user, HAS_PYLIBSSH, threadVars, policy, xc, px>>

Put(c) ==
    \E exists \in BOOLEAN, proto \in Protos :
        \E io \in (IF exists /\ proto # "ftp" THEN TransferEnvs ELSE {AllOk}) :
            LET r == put_file(St, c, exists, proto, io)
            IN  /\ WithinBounds(r.st)
                /\ SetSt(r.st)
                /\ last' = [op |-> "put", conn |-> c, res |-> r.res,
                             created |-> FALSE, proto |-> proto,
                             exists |-> exists, calls |-> r.calls]
                /\ UNCHANGED <<remote_user, HAS_PYLIBSSH, yielded, closedBy, threadVars, policy, xc, px>>

Next ==
    \E c \in Conns : Connect(c) \/ Close(c) \/ Reset(c) \/ Fetch(c)

NoExecCall == [pc |-> "idle"]
NoProxyCall == [phase |-> "idle"]

Init ==
    /\ InitCache /\ InitThreads
    /\ policy = NoPolicyCall /\ xc = NoExecCall /\ px = NoProxyCall

Spec == Init /\ [][Next]_vars

\* ------------------------------------------- _connect run by concurrent tasks
\* Each connection object belongs to one task.  Nothing in _connect holds a
\* lock, so another task can run between the membership test of line 318, the
\* call of _connect_uncached and the store of line 321.
\*   pc[c] = "idle"    not inside _connect
\*           "hit"     line 318 found the key; line 319 is next
\*           "miss"    line 318 did not find the key; _connect_uncached is next
\*           "built"   _connect_uncached returned ret[c]; the store is next
\*           "done"    _connect returned
\*           "raised"  _connect raised
ConnCheck(c) ==
    /\ pc[c] \in {"idle", "done", "raised"}
    /\ pc' = [pc EXCEPT ![c] = IF cache_key(c) \in DOMAIN SSH_CONNECTION_CACHE
                               THEN "hit" ELSE "miss"]
    /\ ret' = Forget(ret, c)
    /\ UNCHANGED <<cacheVars, policy, xc, px>>

\* line 319: self.ssh = SSH_CONNECTION_CACHE[cache_key]
ConnHit(c) ==
    /\ pc[c] = "hit"
    /\ ssh' = DictSet(ssh, c, SSH_CONNECTION_CACHE[cache_key(c)])
    /\ pc' = [pc EXCEPT ![c] = "done"]
    /\ Record("connect", c, "ok", FALSE)
    /\ UNCHANGED <<remote_user, HAS_PYLIBSSH, SSH_CONNECTION_CACHE,
                   SFTP_CONNECTION_CACHE, sftp, chan, sessions, sftps, channels,
                   yielded, closedBy, ret, policy, xc, px>>

\* line 321, right-hand side: self._connect_uncached()
ConnUncached(c) ==
    /\ pc[c] = "miss"
    /\ \E env \in (IF HAS_PYLIBSSH THEN ConnectEnvs ELSE {"ok"}) :
          LET r == connect_uncached(St, c, env)
          IN  /\ WithinBounds(r.st)
              /\ SetSt(r.st)
              /\ IF r.res = "ok"
                 THEN /\ pc' = [pc EXCEPT ![c] = "built"]
                      /\ ret' = DictSet(ret, c, CHOOSE s \in r.ret : TRUE)
                      /\ UNCHANGED last
                 ELSE /\ pc' = [pc EXCEPT ![c] = "raised"]
                      /\ Record("connect", c, r.res, TRUE)
                      /\ UNCHANGED ret
    /\ UNCHANGED <<remote_user, HAS_PYLIBSSH, yielded, closedBy, policy, xc, px>>

\* line 321, the two targets: self.ssh = SSH_CONNECTION_CACHE[cache_key] = ...
ConnStore(c) ==
    /\ pc[c] = "built"
    /\ ssh' = DictSet(ssh, c, ret[c])
    /\ SSH_CONNECTION_CACHE' = DictSet(SSH_CONNECTION_CACHE, cache_key(c), ret[c])
    /\ pc' = [pc EXCEPT ![c] = "done"]
    /\ Record("connect", c, "ok", TRUE)
    /\ UNCHANGED <<remote_user, HAS_PYLIBSSH, SFTP_CONNECTION_CACHE, sftp, chan,
                   sessions, sftps, channels, yielded, closedBy, ret, policy, xc, px>>

NextThreads ==
    \E c \in Conns : ConnCheck(c) \/ ConnHit(c) \/ ConnUncached(c) \/ ConnStore(c)

SpecThreads == Init /\ [][NextThreads]_vars

\* C5: tasks of one identity running connect() concurrently create one session
\* between them and hold the same session once their calls have returned.  (No
\* task closes anything under SpecThreads.)
ConcurrentConnectCreatesOnce ==
    /\ \A c, d \in Conns :
          (SameIdentity(c, d) /\ pc[c] = "done" /\ pc[d] = "done") => ssh[c] = ssh[d]
    /\ \A u \in Users :
          Cardinality({s \in 1..Len(sessions) :
                         sessions[s].user = u /\ sessions[s].state = "open"}) <= 1

\* ------------------------------------------------ one missing_host_key call
InitPolicy ==
    /\ InitCache /\ InitThreads /\ xc = NoExecCall /\ px = NoProxyCall
    /\ policy \in [phase : {"called"}, o : Options, inp : Answers]

\* The library calls the policy for a host key it does not know.
MissingHostKey ==
    /\ policy.phase = "called"
    /\ policy' = [phase |-> "returned", o |-> policy.o, inp |-> policy.inp,
                  out |-> missing_host_key(policy.o, policy.inp)]
    /\ UNCHANGED <<cacheVars, threadVars, xc, px>>

NextPolicy == MissingHostKey

SpecPolicy == InitPolicy /\ [][NextPolicy]_vars

Persistent(o) == o.use_persistent_connections \/ o.force_persistence

\* C7: with checking on, auto-add off and a persistent connection the policy
\* raises, shows no prompt and does not call hostkey_auto_add.
PersistentRejectsWithoutPrompt ==
    (/\ policy.phase = "returned"
     /\ policy.o.host_key_checking /\ ~policy.o.host_key_auto_add
     /\ Persistent(policy.o))
    => /\ policy.out.raised # "none"
       /\ ~policy.out.prompted
       /\ ~policy.out.hostkey_auto_add

\* The policy rejected a connection made persistent by the caller alone.
ForcedPersistenceRejected ==
    /\ policy.phase = "returned"
    /\ policy.o.host_key_checking /\ ~policy.o.host_key_auto_add
    /\ policy.o.force_persistence /\ ~policy.o.use_persistent_connections
    /\ policy.out.raised # "none"

\* C8: with checking off or auto-add on the policy raises nothing, shows no
\* prompt and calls hostkey_auto_add, whatever the persistence settings.
UncheckedAcceptsSilently ==
    (/\ policy.phase = "returned"
     /\ ~policy.o.host_key_checking \/ policy.o.host_key_auto_add)
    => /\ policy.out.raised = "none"
       /\ ~policy.out.prompted
       /\ policy.out.hostkey_auto_add

\* The policy accepted the key of a persistent connection: auto-add is on.
AutoAddAcceptedPersistent ==
    /\ policy.phase = "returned"
    /\ policy.o.host_key_checking /\ policy.o.host_key_auto_add
    /\ Persistent(policy.o)
    /\ policy.out.hostkey_auto_add

\* C19: with checking on, auto-add off and no persistence the user is asked;
\* the call returns exactly when the answer is "yes", "y" or empty, raises the
\* rejection error for any other answer, and calls hostkey_auto_add exactly
\* when it returns.
InteractiveAnswerDecides ==
    (/\ policy.phase = "returned"
     /\ policy.o.host_key_checking /\ ~policy.o.host_key_auto_add
     /\ ~Persistent(policy.o))
    => /\ policy.out.prompted
       /\ policy.out.raised = "none" <=> policy.inp \in {"yes", "y", ""}
       /\ policy.out.raised \in {"none", "AnsibleError: host connection rejected by user"}
       /\ policy.out.hostkey_auto_add <=> policy.out.raised = "none"

\* The user was asked and answered with an empty line: the key was accepted.
EmptyAnswerAccepted ==
    /\ policy.phase = "returned"
    /\ policy.o.host_key_checking /\ ~policy.o.host_key_auto_add
    /\ ~Persistent(policy.o)
    /\ policy.inp = "" /\ policy.out.prompted /\ policy.out.hostkey_auto_add

\* ------------------------------------------------------ _get_proxy_command
\* Text is a sequence of atoms: a word (characters of \w only), " ", "=", "'",
\* a placeholder, or another piece of text that does not begin with a word
\* character followed by "=" or a blank.
Words == {"ProxyCommand", "proxycommand", "StrictHostKeyChecking", "nc", "no", "bob", "a"}

\* str.lower(), atom by atom
lower(s) == [k \in 1..Len(s) |-> IF s[k] = "ProxyCommand" THEN "proxycommand" ELSE s[k]]

\* str.strip()
RECURSIVE strip(_)
strip(s) ==
    IF s = <<>> THEN s
    ELSE IF Head(s) = " " THEN strip(Tail(s))
    ELSE IF s[Len(s)] = " " THEN strip(SubSeq(s, 1, Len(s) - 1))
    ELSE s

\* shlex.split, for text whose quotes are balanced: blanks outside quotes end
\* a token, quotes group and are dropped.  cur is the token being read, inq
\* tells whether a quote is open, has whether a token has begun.
RECURSIVE shlex_split(_, _, _, _)
shlex_split(s, cur, inq, has) ==
    IF s = <<>> THEN (IF has THEN <<cur>> ELSE <<>>)
    ELSE IF Head(s) = "'" THEN shlex_split(Tail(s), cur, ~inq, TRUE)
    ELSE IF Head(s) = " " /\ ~inq
    THEN (IF has THEN <<cur>> ELSE <<>>) \o shlex_split(Tail(s), <<>>, FALSE, FALSE)
    ELSE shlex_split(Tail(s), Append(cur, Head(s)), inq, TRUE)

\* self._split_ssh_args: [x.strip() for x in shlex.split(argstring) if x.strip()]
split_ssh_args(s) ==
    LET toks == shlex_split(s, <<>>, FALSE, FALSE)
        F[k \in 0..Len(toks)] ==
            IF k = 0 THEN <<>>
            ELSE IF strip(toks[k]) = <<>> THEN F[k - 1]
            ELSE Append(F[k - 1], strip(toks[k]))
    IN  F[Len(toks)]

\* The number of atoms at the head of s that belong to set.
RECURSIVE LeadingCount(_, _)
LeadingCount(s, set) ==
    IF s # <<>> /\ Head(s) \in set THEN 1 + LeadingCount(Tail(s), set) ELSE 0

\* SETTINGS_REGEX.match(arg) for (\w+)(?:\s*=\s*|\s+)(.+): the words at the
\* head, then "=" with blanks around it or else blanks alone, then a rest
\* that is not empty.
settings_match(arg) ==
    LET n == LeadingCount(arg, Words)
        rest == SubSeq(arg, n + 1, Len(arg))
        k == LeadingCount(rest, {" "})
        afterBlanks == SubSeq(rest, k + 1, Len(rest))
        afterEq == IF afterBlanks # <<>> /\ Head(afterBlanks) = "="
                   THEN Tail(afterBlanks) ELSE <<>>
        value == SubSeq(afterEq, LeadingCount(afterEq, {" "}) + 1, Len(afterEq))
    IN  IF n = 0 THEN [matched |-> FALSE]
        ELSE IF value # <<>>
        THEN [matched |-> TRUE, g1 |-> SubSeq(arg, 1, n), g2 |-> value]
        ELSE IF k > 0 /\ afterBlanks # <<>>
        THEN [matched |-> TRUE, g1 |-> SubSeq(arg, 1, n), g2 |-> afterBlanks]
        ELSE [matched |-> FALSE]

\* The loop of lines 341-353 from position i on: the first argument that names
\* ProxyCommand decides.
RECURSIVE scan_args(_, _)
scan_args(args, i) ==
    IF i > Len(args) THEN [res |-> "ok", proxy_command |-> <<>>]
    ELSE IF lower(args[i]) = <<"proxycommand">>
    THEN IF i + 1 > Len(args)
         THEN [res |-> "IndexError", proxy_command |-> <<>>]
         ELSE [res |-> "ok", proxy_command |-> args[i + 1]]
    ELSE LET m == settings_match(args[i])
         IN  IF m.matched /\ lower(m.g1) = <<"proxycommand">>
             THEN [res |-> "ok", proxy_command |-> m.g2]
             ELSE scan_args(args, i + 1)

\* str(n) of a natural number, one atom per digit
RECURSIVE str_int(_)
str_int(n) ==
    LET digit == <<"0", "1", "2", "3", "4", "5", "6", "7", "8", "9">>[(n % 10) + 1]
    IN  IF n < 10 THEN <<digit>> ELSE Append(str_int(n \div 10), digit)

\* str.replace(find, repl) for a one-atom find
RECURSIVE replace(_, _, _)
replace(s, find, repl) ==
    IF s = <<>> THEN <<>>
    ELSE (IF Head(s) = find THEN repl ELSE <<Head(s)>>) \o replace(Tail(s), find, repl)

\* The options and play-context values one call reads.  An option that is
\* unset or empty is <<>>.
Blank == <<" ">>
ArgStrings ==
    {<<>>,
     <<"-o", " ", "ProxyCommand", "=", "nc", " ", "%h", " ", "%p">>,
     <<"-o", " ", "ProxyCommand", "=", "'", "nc", " ", "%h", " ", "%p", "'">>,
     <<"-o", " ", "'", "ProxyCommand", " ", "nc", " ", "%r", "'">>,
     <<"-o", " ", "proxycommand", " ", "nc">>,
     <<"-o", " ", "StrictHostKeyChecking", "=", "no">>,
     <<"-o", " ", "ProxyCommand">>}
ProxyOptions == {<<>>, <<"connect", " ", "%h", " ", "%p">>, <<"ssh", " ", "%r", "@", "%h">>}
Hosts == {<<"example.com">>, <<"fe80::1", "%p", "pp0">>, <<"h", "%r">>}
Ports == {22, 2222}
UserNames == {<<"bob">>, <<"a", "%p">>}

ProxyInputs == [ssh_extra_args : {<<>>, <<"-o", " ", "ProxyCommand">>},
                ssh_common_args : ArgStrings,
                ssh_args : {<<>>, <<"-o", " ", "StrictHostKeyChecking", "=", "no">>},
                proxy_command : ProxyOptions,
                remote_addr : Hosts, port : Ports, remote_user : UserNames]

\* Faulty variant: the proxy_command option is preferred to the legacy
\* arguments.
get_proxy_command_optionFirst(i) ==
    LET ssh_args == <<i.ssh_extra_args, i.ssh_common_args, i.ssh_args>>
        any == \E k \in 1..3 : ssh_args[k] # <<>>
        joined == ssh_args[1] \o Blank \o ssh_args[2] \o Blank \o ssh_args[3]
        found == IF any THEN scan_args(split_ssh_args(joined), 1)
                 ELSE [res |-> "ok", proxy_command |-> <<>>]
        template == IF i.proxy_command # <<>> THEN i.proxy_command
                    ELSE found.proxy_command
        h == replace(template, "%h", i.remote_addr)
        p == replace(h, "%p", str_int(i.port))
        r == replace(p, "%r", i.remote_user)
    IN  IF found.res # "ok"
        THEN [res |-> found.res, warned |-> any, template |-> <<>>, out |-> <<>>]
        ELSE [res |-> "ok", warned |-> any, template |-> template, out |-> r]

\* Connection._get_proxy_command.  `warned` tells whether the deprecation
\* warning was shown, `template` is proxy_command when line 357 is reached and
\* `out` the value returned.
get_proxy_command(i) ==
    LET ssh_args == <<i.ssh_extra_args, i.ssh_common_args, i.ssh_args>>
        any == \E k \in 1..3 : ssh_args[k] # <<>>
        joined == ssh_args[1] \o Blank \o ssh_args[2] \o Blank \o ssh_args[3]
        found == IF any THEN scan_args(split_ssh_args(joined), 1)
                 ELSE [res |-> "ok", proxy_command |-> <<>>]
        template == IF found.proxy_command # <<>> THEN found.proxy_command
                    ELSE i.proxy_command
        h == replace(template, "%h", i.remote_addr)
        p == replace(h, "%p", str_int(i.port))
        r == replace(p, "%r", i.remote_user)
    IN  IF found.res # "ok"
        THEN [res |-> found.res, warned |-> any, template |-> <<>>, out |-> <<>>]
        ELSE [res |-> "ok", warned |-> any, template |-> template, out |-> r]

InitProxy ==
    /\ InitCache /\ InitThreads /\ policy = NoPolicyCall /\ xc = NoExecCall
    /\ remote_user["c2"] = "u2" /\ HAS_PYLIBSSH
    /\ px \in [phase : {"called"}, i : ProxyInputs]

GetProxyCommand ==
    /\ px.phase = "called"
    /\ px' = [phase |-> "returned", i |-> px.i] @@ get_proxy_command(px.i)
    /\ UNCHANGED <<cacheVars, threadVars, policy, xc>>

NextProxy == GetProxyCommand

SpecProxy == InitProxy /\ [][NextProxy]_vars

\* C15 as stated: the common arguments "-o ProxyCommand=nc %h %p" (the value
\* not quoted), with no other legacy arguments, host example.com and port
\* 2222, resolve to "nc example.com 2222".
UnquotedProxyCommandResolved ==
    (/\ px.phase = "returned"
     /\ px.i.ssh_common_args
          = <<"-o", " ", "ProxyCommand", "=", "nc", " ", "%h", " ", "%p">>
     /\ px.i.ssh_extra_args = <<>> /\ px.i.ssh_args = <<>>
     /\ px.i.remote_addr = <<"example.com">> /\ px.i.port = 2222)
    => /\ px.res = "ok"
       /\ px.out = <<"nc", " ", "example.com", " ", "2", "2", "2", "2">>

\* C15, amended: the common arguments "-o ProxyCommand='nc %h %p'", the value
\* quoted so that it is one shell token, with no other legacy arguments, host
\* example.com and port 2222, resolve to "nc example.com 2222", whatever the
\* proxy_command option and the user.
QuotedProxyCommandResolved ==
    (/\ px.phase = "returned"
     /\ px.i.ssh_common_args
          = <<"-o", " ", "ProxyCommand", "=", "'", "nc", " ", "%h", " ", "%p", "'">>
     /\ px.i.ssh_extra_args = <<>> /\ px.i.ssh_args = <<>>
     /\ px.i.remote_addr = <<"example.com">> /\ px.i.port = 2222)
    => /\ px.res = "ok"
       /\ px.out = <<"nc", " ", "example.com", " ", "2", "2", "2", "2">>

\* The quoted ProxyCommand of the common arguments was resolved in a call
\* that also had a proxy_command option.
QuotedProxyCommandWon ==
    /\ px.phase = "returned" /\ px.res = "ok"
    /\ px.i.ssh_common_args
         = <<"-o", " ", "ProxyCommand", "=", "'", "nc", " ", "%h", " ", "%p", "'">>
    /\ px.i.ssh_extra_args = <<>> /\ px.i.ssh_args = <<>>
    /\ px.i.remote_addr = <<"example.com">> /\ px.i.port = 2222
    /\ px.i.proxy_command = <<"ssh", " ", "%r", "@", "%h">>
    /\ px.template = <<"nc", " ", "%h", " ", "%p">>

\* One pass over the template that replaces each placeholder by its value.
SubstitutedAtOnce(template, i) ==
    LET F[k \in 0..Len(template)] ==
            IF k = 0 THEN <<>>
            ELSE F[k - 1] \o (IF template[k] = "%h" THEN i.remote_addr
                               ELSE IF template[k] = "%p" THEN str_int(i.port)
                               ELSE IF template[k] = "%r" THEN i.remote_user
                               ELSE <<template[k]>>)
    IN  F[Len(template)]

\* C16: the value returned is the resolved command with every %h, %p and %r
\* replaced by host, port and user in one simultaneous pass: text that a
\* replacement inserted is not replaced again.
SubstitutionIsOnePass ==
    (px.phase = "returned" /\ px.res = "ok")
    => px.out = SubstitutedAtOnce(px.template, px.i)

\* ----------------------------------------------------------- exec_command
MaxChannels == 2    \* channels opened in one run
MaxChunk == 2       \* tokens in one chunk read from the channel
MaxOutput == 2      \* tokens accumulated in become_output

\* Bytes are sequences of tokens.  A line ends after "\n"; the escalation
\* collaborator's check_success and check_password_prompt look for their
\* marker inside one line; b"unknown user" is two tokens, so that it can
\* arrive split over two chunks.
Tokens == {"unknown ", "user", "\n", "SUCCESS", "Password:", "x"}
UnknownUser == <<"unknown ", "user">>

RECURSIVE SeqsUpTo(_)
SeqsUpTo(n) ==
    IF n = 0 THEN {<<>>}
    ELSE LET shorter == SeqsUpTo(n - 1)
         IN  shorter \cup {Append(s, b) : s \in {x \in shorter : Len(x) = n - 1},
                                           b \in Tokens}

\* What chan.recv can return: a chunk of data, or b"" once the peer closed.
Chunks == SeqsUpTo(MaxChunk)

\* bytes.splitlines(True)
RECURSIVE splitlines(_)
splitlines(b) ==
    IF b = <<>> THEN <<>>
    ELSE IF \E i \in 1..Len(b) : b[i] = "\n"
    THEN LET i == CHOOSE j \in 1..Len(b) :
                      b[j] = "\n" /\ \A k \in 1..(j - 1) : b[k] # "\n"
         IN  <<SubSeq(b, 1, i)>> \o splitlines(SubSeq(b, i + 1, Len(b)))
    ELSE <<b>>

\* needle in haystack, for bytes
Contains(hay, needle) ==
    \E i \in 1..(Len(hay) - Len(needle) + 1) :
        SubSeq(hay, i, i + Len(needle) - 1) = needle

check_success(line) == Contains(line, <<"SUCCESS">>)
check_password_prompt(line) == Contains(line, <<"Password:">>)

\* The for loop of lines 513-519: the first line that signals success or a
\* password prompt decides, success being asked first.
RECURSIVE scan_lines(_)
scan_lines(lines) ==
    IF lines = <<>> THEN "none"
    ELSE IF check_success(Head(lines)) THEN "success"
    ELSE IF check_password_prompt(Head(lines)) THEN "prompt"
    ELSE scan_lines(Tail(lines))

\* Python truth of in_data: None and b"" are false.
InData == {"None", "", "payload"}
Truthy(d) == d \notin {"None", ""}

\* The become_user option of the escalation collaborator, "None" without one.
BecomeUsers == {"root", "admin"}

\* The inputs of one call.  Without an escalation collaborator (self.become is
\* None) there is no expect_prompt() to ask and no become_user to read.
ExecInputs ==
    {i \in [in_data : InData, sudoable : BOOLEAN, pty : BOOLEAN,
            become : BOOLEAN,          \* self.become is set
            expect_prompt : BOOLEAN,   \* self.become.expect_prompt()
            become_user : BecomeUsers \cup {"None"},
            chan_ok : BOOLEAN] :       \* ssh.new_channel() raises nothing
        IF i.become THEN i.become_user # "None"
        ELSE ~i.expect_prompt /\ i.become_user = "None"}

Pipelining == "AnsibleError: Internal Error: this module does not support optimized module pipelining"

\* Faulty variant: in_data is tested after the channel is open and the
\* command sent.
exec_begin_lateCheck(st, c, i, rc) ==
    LET ch == Len(st.channels) + 1
    IN  [st |-> [st EXCEPT !.channels = Append(@, [session |-> st.ssh[c],
                                                    open |-> TRUE]),
                           !.chan = DictSet(@, c, ch)],
         x |-> [pc |-> "raised", i |-> i, opened |-> TRUE, shell |-> FALSE,
                sent |-> <<"cmd">>, error |-> Pipelining]]

\* exec_command up to the loop (lines 448-490) or, without a prompt to wait
\* for, up to the return (lines 534, 538-544).  x holds the locals; `opened`
\* tells whether new_channel was called, `sent` what sendall has sent.
exec_begin(st, c, i, rc) ==
    LET x0 == [pc |-> "begin", i |-> i, opened |-> FALSE, shell |-> FALSE,
               sent |-> <<>>, passprompt |-> FALSE, become_sucess |-> FALSE,
               become_output |-> <<>>, no_prompt_out |-> <<>>,
               no_prompt_err |-> <<>>, ended |-> "none"]
    IN  IF Truthy(i.in_data)
        THEN [st |-> st, x |-> [x0 EXCEPT !.pc = "raised"] @@ [error |-> Pipelining]]
        ELSE IF ~(i.chan_ok /\ IsOpen(st, c))
        THEN [st |-> st,
              x |-> [x0 EXCEPT !.pc = "raised", !.opened = TRUE]
                    @@ [error |-> "AnsibleConnectionFailure: Failed to open session"]]
        ELSE LET ch == Len(st.channels) + 1
                 st1 == [st EXCEPT !.channels = Append(@, [session |-> st.ssh[c],
                                                           open |-> TRUE]),
                                   !.chan = DictSet(@, c, ch)]
                 x1 == [x0 EXCEPT !.opened = TRUE, !.shell = i.pty /\ i.sudoable]
             IN  IF i.become /\ i.expect_prompt
                 THEN [st |-> st1, x |-> [x1 EXCEPT !.pc = "loop", !.sent = <<"cmd">>]]
                 ELSE \* result = self.chan.exec_command(cmd); return rc, out, err
                      [st |-> st1,
                       x |-> [x1 EXCEPT !.pc = "returned"]
                             @@ [retval |-> [rc |-> rc, out |-> <<"stdout">>,
                                             err |-> <<"stderr">>]]]

\* What poll and recv come to in one turn of the loop: socket.timeout is
\* raised, or a chunk is read.
PollEvents == {[timeout |-> TRUE, chunk |-> <<>>]}
              \cup {[timeout |-> FALSE, chunk |-> ch] : ch \in Chunks}

\* line 506: "user %s does not exist" % n_become_user
UserDoesNotExist(u) == "AnsibleError: user " \o u \o " does not exist"

\* Faulty variant: an empty chunk always ends the loop quietly.
exec_poll_noMarkerCheck(x, ev) ==
    IF ev.timeout
    THEN [x EXCEPT !.pc = "raised", !.ended = "timeout"]
         @@ [error |-> "TypeError: can only concatenate str (not \"bytes\") to str"]
    ELSE IF ev.chunk = <<>>
    THEN [x EXCEPT !.pc = "after", !.ended = "empty"]
    ELSE LET out == x.become_output \o ev.chunk
             hit == scan_lines(splitlines(out))
         IN  [x EXCEPT !.become_output = out,
                       !.become_sucess = (hit = "success"),
                       !.passprompt = (hit = "prompt"),
                       !.pc = IF hit = "none" THEN "loop" ELSE "after",
                       !.ended = hit]

\* Faulty variant: only the first line of the accumulated output is asked
\* about.
exec_poll_firstLineOnly(x, ev) ==
    IF ev.timeout
    THEN [x EXCEPT !.pc = "raised", !.ended = "timeout"]
         @@ [error |-> "TypeError: can only concatenate str (not \"bytes\") to str"]
    ELSE IF ev.chunk = <<>>
    THEN IF Contains(x.become_output, UnknownUser)
         THEN [x EXCEPT !.pc = "raised", !.ended = "empty"]
              @@ [error |-> UserDoesNotExist(x.i.become_user)]
         ELSE [x EXCEPT !.pc = "after", !.ended = "empty"]
    ELSE LET out == x.become_output \o ev.chunk
             hit == scan_lines(SubSeq(splitlines(out), 1, 1))
         IN  [x EXCEPT !.become_output = out,
                       !.become_sucess = (hit = "success"),
                       !.passprompt = (hit = "prompt"),
                       !.pc = IF hit = "none" THEN "loop" ELSE "after",
                       !.ended = hit]

\* One turn of the while loop (lines 492-519).  `ended` remembers what ended
\* the loop: "timeout", "empty" (an empty chunk), "success" or "prompt".
exec_poll(x, ev) ==
    IF ev.timeout
    THEN \* line 536 adds bytes to a str
         [x EXCEPT !.pc = "raised", !.ended = "timeout"]
         @@ [error |-> "TypeError: can only concatenate str (not \"bytes\") to str"]
    ELSE IF ev.chunk = <<>>
    THEN IF Contains(x.become_output, UnknownUser)
         THEN [x EXCEPT !.pc = "raised", !.ended = "empty"]
              @@ [error |-> UserDoesNotExist(x.i.become_user)]
         ELSE [x EXCEPT !.pc = "after", !.ended = "empty"]
    ELSE LET out == x.become_output \o ev.chunk
             hit == scan_lines(splitlines(out))
         IN  [x EXCEPT !.become_output = out,
                       !.become_sucess = (hit = "success"),
                       !.passprompt = (hit = "prompt"),
                       !.pc = IF hit = "none" THEN "loop" ELSE "after",
                       !.ended = hit]

\* Faulty variant: the password is sent whatever ended the loop.
exec_finish_alwaysSend(x, rc) ==
    [x EXCEPT !.sent = Append(@, "become_pass\n"), !.pc = "returned"]
    @@ [retval |-> [rc |-> rc, out |-> <<>>, err |-> <<>>]]

\* After the loop (lines 520-532) and the return (lines 538-544): result is
\* None on this path, out and err are still b"".
exec_finish(x, rc) ==
    LET x1 == IF x.passprompt
              THEN [x EXCEPT !.sent = Append(@, "become_pass\n")]
              ELSE [x EXCEPT !.no_prompt_out = @ \o x.become_output,
                             !.no_prompt_err = @ \o x.become_output]
    IN  [x1 EXCEPT !.pc = "returned"]
        @@ [retval |-> [rc |-> rc, out |-> <<>>, err |-> <<>>]]

\* c1 has connected; it runs exec_command calls one after the other.
InitExec ==
    /\ remote_user = [c \in Conns |-> "u1"]
    /\ HAS_PYLIBSSH = TRUE
    /\ SSH_CONNECTION_CACHE = [k \in {cache_key("c1")} |-> 1]
    /\ SFTP_CONNECTION_CACHE = Empty
    /\ ssh = [c \in {"c1"} |-> 1]
    /\ sftp = Empty
    /\ chan = Empty
    /\ sessions = <<[state |-> "open", user |-> "u1"]>>
    /\ sftps = <<>>
    /\ channels = <<>>
    /\ last = [op |-> "connect", conn |-> "c1", res |-> "ok", created |-> TRUE]
    /\ yielded = [k \in {cache_key("c1")} |-> 1]
    /\ closedBy = Empty
    /\ InitThreads
    /\ policy = NoPolicyCall
    /\ xc = NoExecCall
    /\ px = NoProxyCall

ExecBegin ==
    /\ xc.pc \in {"idle", "returned", "raised"}
    /\ Len(channels) < MaxChannels
    /\ \E i \in ExecInputs :
          \* the return code is read only on the path that returns at once
          \E rc \in (IF ~Truthy(i.in_data) /\ i.chan_ok /\ ~(i.become /\ i.expect_prompt)
                      THEN {0, 1} ELSE {0}) :
              LET r == exec_begin(St, "c1", i, rc)
              IN  SetSt(r.st) /\ xc' = r.x
    /\ UNCHANGED <<remote_user, HAS_PYLIBSSH, last, yielded, closedBy, threadVars,
                   policy, px>>

ExecPoll ==
    /\ xc.pc = "loop"
    /\ \E ev \in PollEvents :
          /\ Len(xc.become_output) + Len(ev.chunk) <= MaxOutput
          /\ xc' = exec_poll(xc, ev)
    /\ UNCHANGED <<cacheVars, threadVars, policy, px>>

ExecFinish ==
    /\ xc.pc = "after"
    /\ \E rc \in {0, 1} : xc' = exec_finish(xc, rc)
    /\ UNCHANGED <<cacheVars, threadVars, policy, px>>

NextExec == ExecBegin \/ ExecPoll \/ ExecFinish

SpecExec == InitExec /\ [][NextExec]_vars

\* The times the password was sent on the channel.
SecretSends == Cardinality({n \in 1..Len(xc.sent) : xc.sent[n] = "become_pass\n"})

\* C17: the password is sent once, after the command, by a call whose prompt
\* loop ended on a password prompt, and is not sent by any other call: not
\* while the loop runs, not when the loop ended on a success line, an empty
\* chunk or a timeout, not on the path without a prompt, not by a call that
\* raised.
SecretSentOnlyOnPrompt ==
    xc.pc # "idle"
    => IF xc.pc = "returned" /\ xc.ended = "prompt"
       THEN SecretSends = 1 /\ xc.sent = <<"cmd", "become_pass\n">>
       ELSE SecretSends = 0

\* The prompt came on the second line of the output and the password was sent.
SecretSentAfterPrompt ==
    /\ xc.pc = "returned" /\ xc.ended = "prompt"
    /\ xc.become_output = <<"\n", "Password:">>
    /\ xc.sent = <<"cmd", "become_pass\n">>

\* A line of the output signals success or a password prompt.
SomeLineSignals(out) ==
    \E k \in 1..Len(splitlines(out)) :
        \/ check_success(splitlines(out)[k])
        \/ check_password_prompt(splitlines(out)[k])

\* The channel delivers at most MaxOutput tokens of data to one call; each
\* poll and read returns, and the statements after the loop run.
SpecExecFair == SpecExec /\ WF_vars(ExecPoll) /\ WF_vars(ExecFinish)

\* C18: a turn of the prompt loop leaves the loop exactly when a line of the
\* accumulated output signals success or a password prompt, when the chunk read
\* is empty or when the turn raises (a timeout), and a turn that stays in the
\* loop has added data to the output; and a call that entered the loop
\* eventually returns or raises.
LoopEndsWhenSignalled ==
    /\ [][xc.pc = "loop"
           => /\ xc'.pc = "loop"
                 => /\ Len(xc'.become_output) > Len(xc.become_output)
                    /\ ~SomeLineSignals(xc'.become_output)
              /\ xc'.pc # "loop"
                 => \/ xc'.pc = "after" /\ SomeLineSignals(xc'.become_output)
                    \/ /\ xc'.pc = "after" /\ xc'.ended = "empty"
                       /\ xc'.become_output = xc.become_output
                    \/ /\ xc'.pc = "raised"
                       /\ xc'.become_output = xc.become_output]_vars
    /\ (xc.pc = "loop") ~> (xc.pc \in {"returned", "raised"})

\* A call left the loop after two turns, on a prompt, and returned.
ReturnedAfterTwoTurns ==
    /\ xc.pc = "returned" /\ xc.ended = "prompt"
    /\ xc.become_output = <<"x", "Password:">>

\* ------------------------------------- connect, transfer, execute, close
\* The calls of exec_command that involve no escalation collaborator: each is
\* over in one step (lines 448-484, 534, 538-544).
DirectInputs ==
    {i \in ExecInputs : ~i.become /\ i.in_data = "None" /\ i.sudoable /\ i.pty}

ExecDirect(c) ==
    \E i \in DirectInputs :
        LET r == exec_begin(St, c, i, 0)
        IN  /\ Len(r.st.channels) <= MaxChannels
            /\ SetSt(r.st)
            /\ Record("exec", c, IF r.x.pc = "raised" THEN r.x.error ELSE "ok", FALSE)
            /\ UNCHANGED <<remote_user, HAS_PYLIBSSH, yielded, closedBy, threadVars,
                           policy, xc, px>>

\* One connection object goes through its life: the other one stays unused,
\* and the life sees at most LifeSftp SFTP handles.
LifeConns == {"c1"}
LifeSftp == 1

LifePut(c) == Put(c) /\ Len(sftps') <= LifeSftp
LifeFetch(c) == Fetch(c) /\ Len(sftps') <= LifeSftp

NextLife ==
    \E c \in LifeConns :
        Connect(c) \/ LifePut(c) \/ LifeFetch(c) \/ ExecDirect(c) \/ Close(c)

InitLife == Init /\ remote_user["c2"] = "u2"

SpecLife == InitLife /\ [][NextLife]_vars

\* C13: put_file with a local path that does not exist raises
\* AnsibleFileNotFound whatever the protocol, having made no call on the
\* session or on a handle, and leaves both caches, the SFTP handles and
\* self.sftp as they were.
PutMissingFileFailsFirst ==
    [][(last'.op = "put" /\ ~last'.exists)
        => /\ last'.res = "AnsibleFileNotFound"
           /\ last'.calls = {}
           /\ SSH_CONNECTION_CACHE' = SSH_CONNECTION_CACHE
           /\ SFTP_CONNECTION_CACHE' = SFTP_CONNECTION_CACHE
           /\ sftps' = sftps /\ sftp' = sftp]_vars

\* A put of a missing file over SFTP was refused on an object whose session
\* is open and cached: the transfer would have been possible.
PutMissingFileRefused ==
    /\ last.op = "put" /\ ~last.exists /\ last.proto = "sftp"
    /\ last.res = "AnsibleFileNotFound"
    /\ IsOpen(St, last.conn)
    /\ cache_key(last.conn) \in DOMAIN SSH_CONNECTION_CACHE

\* A transfer by an unknown protocol fails with the unknown-protocol error,
\* without a call on the session or on a handle, and with both caches, the
\* SFTP handles and self.sftp unchanged.
UnknownProtocolRefused ==
    /\ last'.res = UnknownProtocol
    /\ last'.calls = {}
    /\ SSH_CONNECTION_CACHE' = SSH_CONNECTION_CACHE
    /\ SFTP_CONNECTION_CACHE' = SFTP_CONNECTION_CACHE
    /\ sftps' = sftps /\ sftp' = sftp

\* C14 as stated: every put and every fetch with a protocol other than "sftp"
\* and "scp" is refused with the unknown-protocol error.
AnyUnknownProtocolRefused ==
    [][(last'.op \in {"put", "fetch"} /\ last'.proto \notin {"sftp", "scp"})
        => UnknownProtocolRefused]_vars

\* C14, amended: every fetch, and every put of a local path that exists, with
\* a protocol other than "sftp" and "scp" is refused with the unknown-protocol
\* error.  (A put of a missing path raises AnsibleFileNotFound first.)
UnknownProtocolRefusedIfFileExists ==
    [][(/\ last'.op = "fetch" \/ (last'.op = "put" /\ last'.exists)
        /\ last'.proto \notin {"sftp", "scp"})
        => UnknownProtocolRefused]_vars

\* A fetch by an unknown protocol was refused on an object whose session is
\* open and whose identity has a cached SFTP handle.
FetchUnknownProtocolRefused ==
    /\ last.op = "fetch" /\ last.proto = "ftp" /\ last.res = UnknownProtocol
    /\ IsOpen(St, last.conn)
    /\ cache_key(last.conn) \in DOMAIN SFTP_CONNECTION_CACHE

\* C20: when sftp.close() or chan.close() raises inside close(), the error
\* reaches the caller, no later close call is made (the raising call is the
\* last one made and ssh.close() is not among them), no session changes state,
\* line 647 does not run, and the identity is in neither cache.
CloseErrorPropagates ==
    [][(last'.op = "close" /\ last'.fails # "none")
        => /\ last'.res = "error: " \o last'.fails \o ".close"
           /\ last'.calls # <<>>
           /\ last'.calls[Len(last'.calls)] = last'.fails \o ".close"
           /\ \A n \in 1..Len(last'.calls) : last'.calls[n] # "ssh.close"
           /\ sessions' = sessions
           /\ ~last'.marked
           /\ cache_key(last'.conn) \notin DOMAIN SSH_CONNECTION_CACHE'
           /\ cache_key(last'.conn) \notin DOMAIN SFTP_CONNECTION_CACHE']_vars

\* sftp.close() raised in the close() of an object that also holds a channel
\* and an open session, both left open.
SftpCloseRaised ==
    /\ last.op = "close" /\ last.fails = "sftp" /\ last.res = "error: sftp.close"
    /\ last.conn \in DOMAIN chan /\ channels[chan[last.conn]].open
    /\ IsOpen(St, last.conn)

\* An exec_command call that returns has opened one channel, on the session of
\* the object, and has left the channels opened before as they were.
ExecOpensOneChannel ==
    [][(last'.op = "exec" /\ last'.res = "ok")
        => /\ Len(channels') = Len(channels) + 1
           /\ SubSeq(channels', 1, Len(channels)) = channels
           /\ channels'[Len(channels')] = [session |-> ssh[last'.conn], open |-> TRUE]
           /\ chan'[last'.conn] = Len(channels')]_vars

\* C21: after a close() that returned, no channel the object opened is open.
\* A channel counts as open until close() is called on it; in SpecLife one
\* object acts, so that every channel is one it opened.
NoChannelOpenAfterClose ==
    (last.op = "close" /\ last.res = "ok")
    => \A k \in 1..Len(channels) : ~channels[k].open

\* ------------------------------------------------ transfers and close
\* One connection object connects, transfers files and closes; it can obtain
\* MaxSftp SFTP handles.
NextSftp ==
    \E c \in LifeConns : Connect(c) \/ Put(c) \/ Fetch(c) \/ Close(c)

SpecSftp == InitLife /\ [][NextSftp]_vars

\* C22: after a close() that returned, every SFTP handle the object obtained,
\* from put_file or from fetch_file, is closed.  A handle counts as open until
\* close() is called on it; in SpecSftp one object acts, so that every handle
\* is one it obtained.
NoSftpOpenAfterClose ==
    (last.op = "close" /\ last.res = "ok")
    => \A h \in 1..Len(sftps) : ~sftps[h].open

\* ------------------------------------------------------ the two caches
\* Both connection objects, of one identity or of two, connect, transfer
\* over SFTP, close and reset, one call at a time.  A put of a missing path
\* and a transfer by another protocol change nothing of the program's state
\* and are left out; the run sees at most LifeSftp SFTP handles.
CachePut(c) == LifePut(c) /\ last'.exists /\ last'.proto = "sftp"
CacheFetch(c) == LifeFetch(c) /\ last'.proto = "sftp"

NextCache ==
    \E c \in Conns :
        Connect(c) \/ CachePut(c) \/ CacheFetch(c) \/ Close(c) \/ Reset(c)

SpecCache == Init /\ [][NextCache]_vars

\* C23: an identity in the SFTP cache is in the session cache too, and its
\* cached handle was opened on the session cached for it, which is open.
SftpCacheFollowsSessionCache ==
    \A k \in DOMAIN SFTP_CONNECTION_CACHE :
        /\ k \in DOMAIN SSH_CONNECTION_CACHE
        /\ sftps[SFTP_CONNECTION_CACHE[k]].session = SSH_CONNECTION_CACHE[k]
        /\ sessions[SSH_CONNECTION_CACHE[k]].state = "open"

\* The first session of an identity was closed and replaced by a second one;
\* a fetch of the other object of that identity then cached a handle, opened
\* on the second session.
HandleCachedOnReplacement ==
    /\ last.op = "fetch" /\ last.conn = "c2" /\ SameIdentity("c1", "c2")
    /\ Len(sessions) = 2 /\ sessions[1].state = "closed"
    /\ cache_key("c2") \in DOMAIN SFTP_CONNECTION_CACHE
    /\ sftps[SFTP_CONNECTION_CACHE[cache_key("c2")]].session = 2
    /\ "c1" \in DOMAIN ssh /\ ssh["c1"] = 2

\* C9: a call with input data raises the pipelining error without having
\* called new_channel and without having sent anything.
InDataRejectedFirst ==
    (xc.pc # "idle" /\ Truthy(xc.i.in_data))
    => /\ xc.pc = "raised"
       /\ xc.error = Pipelining
       /\ ~xc.opened
       /\ xc.sent = <<>>

\* A call with input data was made on a session that could open a channel.
InDataCallRaised ==
    /\ xc.pc = "raised"
    /\ xc.i.in_data = "payload"
    /\ xc.i.chan_ok

\* The prompt loop of the call ended on an empty chunk, no line having
\* signalled success or a password prompt.
EndedOnEmptyChunk ==
    /\ xc.pc = "returned"
    /\ xc.i.become /\ xc.i.expect_prompt
    /\ ~xc.passprompt /\ ~xc.become_sucess

\* C10: a call whose prompt loop ended on an empty chunk returns the
\* accumulated output as its stdout and as its stderr.
EmptyChunkReturnsOutput ==
    EndedOnEmptyChunk
    => /\ xc.retval.out = xc.become_output
       /\ xc.retval.err = xc.become_output

\* C11: a call whose prompt loop read an empty chunk while the accumulated
\* output contained b"unknown user" raises the error naming the configured
\* become_user, and only the command was sent on the channel: no password.
UnknownUserFails ==
    (/\ xc.pc \in {"after", "returned", "raised"}
     /\ xc.opened /\ xc.ended = "empty"
     /\ Contains(xc.become_output, UnknownUser))
    => /\ xc.pc = "raised"
       /\ xc.error = UserDoesNotExist(xc.i.become_user)
       /\ xc.sent = <<"cmd">>

\* The marker arrived and the call raised.
UnknownUserRaised ==
    /\ xc.pc = "raised"
    /\ xc.opened /\ xc.ended = "empty"
    /\ xc.become_output = <<"unknown ", "user">>
    /\ xc.i.become_user = "admin"

\* The error line 536 means to raise.
TimedOut == "AnsibleError: ssh timed out waiting for privilege escalation."

\* C12: a socket.timeout raised by poll or recv in the prompt loop reaches the
\* caller as the plugin's timeout error (an AnsibleError), whose message shows
\* the output accumulated so far.
TimeoutSurfacesAsTimeoutError ==
    (xc.pc \in {"after", "returned", "raised"} /\ xc.opened /\ xc.ended = "timeout")
    => /\ xc.pc = "raised"
       /\ xc.error = TimedOut
       /\ "shown" \in DOMAIN xc
       /\ xc.shown = xc.become_output

\* ------------------------------------------------- properties of the caches
\* C1: a connect() for an identity that a connect() already served, with no
\* close() or reset() for the identity since, succeeds with the session that
\* connect gave and creates no session (_connect_uncached does not run).
ConnectReusesSession ==
    [][(last'.op = "connect" /\ cache_key(last'.conn) \in DOMAIN yielded)
        => /\ last'.res = "ok"
           /\ ssh'[last'.conn] = yielded[cache_key(last'.conn)]
           /\ ~last'.created
           /\ sessions' = sessions]_vars

\* A connect() reused the session another object of the identity had opened.
SecondConnectReused ==
    /\ last.op = "connect" /\ last.res = "ok" /\ ~last.created
    /\ \E d \in Conns \ {last.conn} :
          /\ d \in DOMAIN ssh
          /\ ssh[d] = ssh[last.conn]
          /\ sessions[ssh[d]].state = "open"

\* C2: when close() returns, the caller's identity is in neither cache; and the
\* next connect() for the identity runs _connect_uncached and, when it
\* succeeds, holds a new, open session that is not the closed one.
CloseEvictsThenFresh ==
    [][/\ (last'.op = "close" /\ last'.res = "ok")
          => /\ cache_key(last'.conn) \notin DOMAIN SSH_CONNECTION_CACHE'
             /\ cache_key(last'.conn) \notin DOMAIN SFTP_CONNECTION_CACHE'
       /\ (last'.op = "connect" /\ cache_key(last'.conn) \in DOMAIN closedBy)
          => /\ last'.created
             /\ last'.res = "ok"
                => /\ ssh'[last'.conn] # closedBy[cache_key(last'.conn)]
                   /\ ssh'[last'.conn] = Len(sessions) + 1
                   /\ sessions'[ssh'[last'.conn]].state = "open"]_vars

\* A connect() created a session for a user one of whose sessions was closed.
ReconnectedAfterClose ==
    /\ last.op = "connect" /\ last.res = "ok" /\ last.created
    /\ \E s \in 1..Len(sessions) :
          /\ sessions[s].state = "closed"
          /\ sessions[s].user = remote_user[last.conn]
          /\ s < ssh[last.conn]

\* C3: the connection objects of one identity that hold an open session all
\* hold the same one, and it is the session cached for the identity.
OneOpenSessionPerIdentity ==
    \A c \in Conns :
        IsOpen(St, c)
        => /\ cache_key(c) \in DOMAIN SSH_CONNECTION_CACHE
           /\ SSH_CONNECTION_CACHE[cache_key(c)] = ssh[c]
           /\ \A d \in Conns :
                 (SameIdentity(c, d) /\ IsOpen(St, d)) => ssh[d] = ssh[c]

\* C4: every session in the session cache is open.
CachedSessionsAreOpen ==
    \A k \in DOMAIN SSH_CONNECTION_CACHE :
        sessions[SSH_CONNECTION_CACHE[k]].state = "open"

\* A session is cached for a user after another session of the user was closed.
CachedAfterAClose ==
    \E k \in DOMAIN SSH_CONNECTION_CACHE, s \in 1..Len(sessions) :
        /\ sessions[s].state = "closed"
        /\ sessions[s].user = sessions[SSH_CONNECTION_CACHE[k]].user

\* C6: a connect() that fails leaves the caller's identity out of the session
\* cache, a connect() that returns has an open session that is the cached one,
\* and no session that never finished connecting is in the cache.
FailedConnectNotRegistered ==
    /\ \A k \in DOMAIN SSH_CONNECTION_CACHE :
          sessions[SSH_CONNECTION_CACHE[k]].state # "new"
    /\ last.op = "connect"
       => IF last.res = "ok"
          THEN /\ IsOpen(St, last.conn)
               /\ cache_key(last.conn) \in DOMAIN SSH_CONNECTION_CACHE
               /\ SSH_CONNECTION_CACHE[cache_key(last.conn)] = ssh[last.conn]
          ELSE cache_key(last.conn) \notin DOMAIN SSH_CONNECTION_CACHE

\* A connect() failed after self.ssh = Session(): the object holds the
\* session that never connected.
ConnectFailedHalfway ==
    /\ last.op = "connect" /\ last.res = "AnsibleConnectionFailure"
    /\ last.conn \in DOMAIN ssh
    /\ sessions[ssh[last.conn]].state = "new"
====
